---- MODULE Spec2Model ----
(***************************************************************************)
(* Model of the ClusterHUD component (presto-ui/src/components/            *)
(* ClusterHUD.jsx): the polling loop (refreshLoop / resetTimer), the       *)
(* mount effect and its cleanup, the throttled update effect, and the nine *)
(* history series with the poll state they are derived from.               *)
(*                                                                         *)
(* Time is the value of Date.now() in milliseconds.  JavaScript numbers    *)
(* are modelled as exact rationals extended with Infinity, -Infinity and   *)
(* NaN, so that a division by zero is a value the series can hold.         *)
(*                                                                         *)
(* React is modelled as follows: the state updates of one callback are     *)
(* committed together, the update effect of a commit runs before the next  *)
(* callback that sets state, and a state setter called after the           *)
(* component was unmounted changes nothing.                                *)
(***************************************************************************)
EXTENDS Integers, Naturals, Sequences, FiniteSets, TLC

\* ------------------------------------------------------------------ bounds
MaxTime == 2200
MaxHistory == 2

\* ------------------------------------------------------- program constants
PollDelay == 1000
RenderInterval == 1000
MsPerSec == 1000
AlphaNum == 1
AlphaDen == 5

Null == -1

TickSteps == {200, 1000}

\* how far before the recorded refresh the wall clock can be set back, the
\* earliest time it is set back to, and the number of fetches issued up to
\* which it is set back (so that the polls that fit into MaxTime stay bounded)
BackSteps == {0, 200}
MinBackTime == PollDelay
MaxBackIssued == MaxTime \div PollDelay

\* ------------------------------------------------------ JavaScript numbers
Abs(i) == IF i < 0 THEN -i ELSE i

RECURSIVE Gcd(_, _)
Gcd(a, b) == IF b = 0 THEN a ELSE Gcd(b, a % b)

Fin(n, d) == [k |-> "fin", n |-> n, d |-> d]
PosInf == [k |-> "inf", n |-> 1, d |-> 0]
NegInf == [k |-> "inf", n |-> -1, d |-> 0]
NaN == [k |-> "nan", n |-> 0, d |-> 0]

\* the rational n/d in lowest terms with a positive denominator (d # 0)
Norm(n, d) ==
    LET g == Gcd(Abs(n), Abs(d))
        s == IF d < 0 THEN -1 ELSE 1
    IN  Fin((s * n) \div g, (s * d) \div g)

NumInt(i) == Fin(i, 1)
IsFinite(x) == x.k = "fin"
Sign(x) == IF x.n > 0 THEN 1 ELSE IF x.n < 0 THEN -1 ELSE 0

NumAdd(x, y) ==
    IF x.k = "nan" \/ y.k = "nan" THEN NaN
    ELSE IF x.k = "inf" /\ y.k = "inf" THEN (IF x.n = y.n THEN x ELSE NaN)
    ELSE IF x.k = "inf" THEN x
    ELSE IF y.k = "inf" THEN y
    ELSE Norm(x.n * y.d + y.n * x.d, x.d * y.d)

NumMul(x, y) ==
    IF x.k = "nan" \/ y.k = "nan" THEN NaN
    ELSE IF x.k = "inf" \/ y.k = "inf"
         THEN (IF Sign(x) * Sign(y) = 0 THEN NaN
               ELSE IF Sign(x) * Sign(y) > 0 THEN PosInf ELSE NegInf)
    ELSE Norm(x.n * y.n, x.d * y.d)

NumDiv(x, y) ==
    IF x.k = "nan" \/ y.k = "nan" THEN NaN
    ELSE IF x.k = "inf" /\ y.k = "inf" THEN NaN
    ELSE IF x.k = "inf" THEN (IF Sign(y) < 0 THEN (IF x.n > 0 THEN NegInf ELSE PosInf) ELSE x)
    ELSE IF y.k = "inf" THEN NumInt(0)
    ELSE IF y.n = 0
         THEN (IF x.n = 0 THEN NaN ELSE IF x.n > 0 THEN PosInf ELSE NegInf)
    ELSE Norm(x.n * y.d, x.d * y.n)

\* a null operand of an arithmetic operator is converted to 0
ToNumber(v) == IF v = Null THEN 0 ELSE v

\* ----------------------------------------------------------- history (utils)
Min(a, b) == IF a < b THEN a ELSE b

\* the most recent MaxHistory samples of s, in order
Trim(s) == IF Len(s) > MaxHistory THEN SubSeq(s, Len(s) - MaxHistory + 1, Len(s)) ELSE s

addToHistory(value, valuesArray) == Trim(Append(valuesArray, value))

addExponentiallyWeightedToHistory(value, valuesArray) ==
    IF Len(valuesArray) = 0
    THEN Trim(Append(valuesArray, value))
    ELSE Trim(Append(valuesArray,
              NumAdd(NumMul(Fin(AlphaNum, AlphaDen), value),
                     NumMul(Fin(AlphaDen - AlphaNum, AlphaDen), valuesArray[Len(valuesArray)]))))

\* ------------------------------------------------------- cluster snapshots
Snap(rq, qq, bq, aw, rd, rm, rows, bytes, cpu) ==
    [runningQueries |-> rq, queuedQueries |-> qq, blockedQueries |-> bq,
     activeWorkers |-> aw, runningDrivers |-> rd, reservedMemory |-> rm,
     totalInputRows |-> rows, totalInputBytes |-> bytes, totalCpuTimeSecs |-> cpu]

Poll1 == Snap(3, 1, 0, 2, 10, 4096, 1000, 500000, 10)
Poll2 == Snap(4, 0, 1, 2, 20, 8192, 1500, 700000, 12)
PollZ == Snap(0, 0, 0, 0, 0, 0, 1800, 800000, 14)

Snapshots == {Poll1, Poll2, PollZ}

\* ------------------------------------------------------------------- state
VARIABLES
    runningQueries, queuedQueries, blockedQueries, activeWorkers,
    runningDrivers, reservedMemory,
    rowInputRate, byteInputRate, perWorkerCpuTimeRate,
    lastRender, lastRefresh, lastInputRows, lastInputBytes, lastCpuTime,
    sched,          \* timeoutIdRef: the handle stored by resetTimer (Null at first),
                    \* timers: the pending timers [id, due], nextId: the next handle
    inFlight,       \* number of $.get requests whose callback has not run
    mounted,        \* "init" before mount, "mounted", "unmounted"
    effectPending,  \* a commit changed a dependency of the update effect
    charts,         \* the series last drawn to the sparklines
    statText,       \* the value shown in the stat-text of each series
    now,            \* Date.now()
    nIssued,        \* history: number of fetches issued
    nFailed,        \* history: number of failure callbacks run
    okLog,          \* history: the successful polls seen while mounted
    redraws,        \* history: the timestamps of the chart redraws
    nSkipped,       \* history: update effects that skipped the redraw
    appended        \* history: every sample appended to each series

pointSeries == <<runningQueries, queuedQueries, blockedQueries, activeWorkers,
                 runningDrivers, reservedMemory>>
rateSeries == <<rowInputRate, byteInputRate, perWorkerCpuTimeRate>>
series == <<pointSeries, rateSeries>>
pollState == <<lastRefresh, lastInputRows, lastInputBytes, lastCpuTime>>
history == <<nIssued, nFailed, okLog, redraws, nSkipped, appended>>
vars == <<series, pollState, lastRender, sched, inFlight, mounted,
          effectPending, charts, statText, now, history>>

SeriesNames == {"runningQueries", "queuedQueries", "blockedQueries", "activeWorkers",
                "runningDrivers", "reservedMemory",
                "rowInputRate", "byteInputRate", "perWorkerCpuTimeRate"}

\* the nine series as one record
AllSeries ==
    [runningQueries |-> runningQueries, queuedQueries |-> queuedQueries,
     blockedQueries |-> blockedQueries, activeWorkers |-> activeWorkers,
     runningDrivers |-> runningDrivers, reservedMemory |-> reservedMemory,
     rowInputRate |-> rowInputRate, byteInputRate |-> byteInputRate,
     perWorkerCpuTimeRate |-> perWorkerCpuTimeRate]

\* variant: the stat-text shows the series as they were last drawn
statTextOfCharts(S) ==
    [n \in SeriesNames |->
        IF Len(charts[n]) = 0 THEN <<>> ELSE <<charts[n][Len(charts[n])]>>]

\* the stat-text of the series S: array[array.length - 1], no value for an
\* empty array
statTextOf(S) ==
    [n \in SeriesNames |-> IF Len(S[n]) = 0 THEN <<>> ELSE <<S[n][Len(S[n])]>>]

Init ==
    /\ runningQueries = <<>> /\ queuedQueries = <<>> /\ blockedQueries = <<>>
    /\ activeWorkers = <<>> /\ runningDrivers = <<>> /\ reservedMemory = <<>>
    /\ rowInputRate = <<>> /\ byteInputRate = <<>> /\ perWorkerCpuTimeRate = <<>>
    /\ lastRender = Null /\ lastRefresh = Null
    /\ lastInputRows = Null /\ lastInputBytes = Null /\ lastCpuTime = Null
    /\ sched = [timeoutIdRef |-> Null, timers |-> {}, nextId |-> 1]
    /\ inFlight = 0
    /\ mounted = "init"
    /\ effectPending = FALSE
    /\ charts = [n \in SeriesNames |-> <<>>]
    /\ statText = [n \in SeriesNames |-> <<>>]
    /\ now = 0
    /\ nIssued = 0 /\ nFailed = 0 /\ okLog = <<>> /\ redraws = <<>> /\ nSkipped = 0
    /\ appended = [n \in SeriesNames |-> <<>>]

\* ------------------------------------------------------------------ timers
\* clearTimeout(timeoutIdRef.current)
clearTimeout(ts) ==
    [ts EXCEPT !.timers = {t \in ts.timers : t.id # ts.timeoutIdRef}]

\* variant: the delay grows with the number of failures
setTimeoutBackoff(ts) ==
    [timeoutIdRef |-> ts.nextId,
     timers |-> ts.timers \cup {[id |-> ts.nextId, due |-> now + PollDelay * (1 + nFailed)]},
     nextId |-> ts.nextId + 1]

\* variant: the handle of the new timer is not stored in timeoutIdRef
setTimeoutLosesHandle(ts) ==
    [timeoutIdRef |-> ts.timeoutIdRef,
     timers |-> ts.timers \cup {[id |-> ts.nextId, due |-> now + PollDelay]},
     nextId |-> ts.nextId + 1]

\* timeoutIdRef.current = setTimeout(() => refreshLoop(), 1000)
setTimeout(ts) ==
    [timeoutIdRef |-> ts.nextId,
     timers |-> ts.timers \cup {[id |-> ts.nextId, due |-> now + PollDelay]},
     nextId |-> ts.nextId + 1]

resetTimer(ts) == setTimeout(clearTimeout(ts))

\* variant: the next timer is armed when the fetch starts
refreshLoopTimersEager(ts) == resetTimer(ts)

\* variant: refreshLoop arms the next timer itself
refreshLoopTimersArmed(ts) == setTimeout(clearTimeout(ts))

\* the timer state after refreshLoop was entered
refreshLoopTimers(ts) == clearTimeout(ts)

\* ---------------------------------------------------------------- closures
\* the values a render of the component has in scope
FirstRenderScope ==
    [lastRefresh |-> Null, lastInputRows |-> Null, lastInputBytes |-> Null,
     lastCpuTime |-> Null, rowInputRate |-> <<>>, byteInputRate |-> <<>>,
     perWorkerCpuTimeRate |-> <<>>]

LatestRenderScope ==
    [lastRefresh |-> lastRefresh, lastInputRows |-> lastInputRows,
     lastInputBytes |-> lastInputBytes, lastCpuTime |-> lastCpuTime,
     rowInputRate |-> rowInputRate, byteInputRate |-> byteInputRate,
     perWorkerCpuTimeRate |-> perWorkerCpuTimeRate]

\* variant: the refreshLoop that runs reads the state of the latest render
refreshLoopScopeLatest == LatestRenderScope

\* The scope of the refreshLoop that runs.  The mount effect (deps []) calls
\* the refreshLoop of the first render, and resetTimer (useCallback with
\* deps []) is the resetTimer of the first render, whose timer callback
\* calls the refreshLoop of that same render.
refreshLoopScope == FirstRenderScope

\* --------------------------------------------------------- rate computation
\* variant: the rates are computed without a previous refresh
hasBaselineAlways(scope) == TRUE

hasBaseline(scope) == scope.lastRefresh # Null

secsSinceRefresh(scope) ==
    NumDiv(NumInt(now - ToNumber(scope.lastRefresh)), NumInt(MsPerSec))

rowRate(cs, scope) ==
    NumDiv(NumInt(cs.totalInputRows - ToNumber(scope.lastInputRows)), secsSinceRefresh(scope))

byteRate(cs, scope) ==
    NumDiv(NumInt(cs.totalInputBytes - ToNumber(scope.lastInputBytes)), secsSinceRefresh(scope))

cpuRate(cs, scope) ==
    NumDiv(NumDiv(NumInt(cs.totalCpuTimeSecs - ToNumber(scope.lastCpuTime)),
                  NumInt(cs.activeWorkers)),
           secsSinceRefresh(scope))

newRowInputRate(cs, scope) ==
    IF hasBaseline(scope)
    THEN addExponentiallyWeightedToHistory(rowRate(cs, scope), scope.rowInputRate)
    ELSE <<>>

newByteInputRate(cs, scope) ==
    IF hasBaseline(scope)
    THEN addExponentiallyWeightedToHistory(byteRate(cs, scope), scope.byteInputRate)
    ELSE <<>>

newPerWorkerCpuTimeRate(cs, scope) ==
    IF hasBaseline(scope)
    THEN addExponentiallyWeightedToHistory(cpuRate(cs, scope), scope.perWorkerCpuTimeRate)
    ELSE <<>>

\* ----------------------------------------------------------- update effect
\* variant: the redraw is not throttled
shouldRenderAlways(last, t) == TRUE

shouldRender(last, t) == last = Null \/ t - last >= RenderInterval

\* the body of the update effect, run after a commit that changed one of
\* its dependencies
updateEffect ==
    IF shouldRender(lastRender, now)
    THEN /\ charts' = AllSeries
         /\ lastRender' = now
         /\ redraws' = Append(redraws, now)
         /\ nSkipped' = nSkipped
         /\ effectPending' = (lastRender' # lastRender)
    ELSE /\ effectPending' = FALSE
         /\ nSkipped' = nSkipped + 1
         /\ UNCHANGED <<charts, lastRender, redraws>>

\* ------------------------------------------------- success callback values
\* variant: the sample is appended without bounding the history
nextRunningQueriesUnbounded(cs) == Append(runningQueries, cs.runningQueries)

nextRunningQueries(cs) == addToHistory(cs.runningQueries, runningQueries)

\* variant: the sample is appended without bounding the history
nextQueuedQueriesUnbounded(cs) == Append(queuedQueries, cs.queuedQueries)

nextQueuedQueries(cs) == addToHistory(cs.queuedQueries, queuedQueries)
nextBlockedQueries(cs) == addToHistory(cs.blockedQueries, blockedQueries)

\* variant: the sample is taken from another field of the snapshot
nextActiveWorkersWrongField(cs) == addToHistory(cs.runningQueries, activeWorkers)

nextActiveWorkers(cs) == addToHistory(cs.activeWorkers, activeWorkers)
nextRunningDrivers(cs) ==
    addExponentiallyWeightedToHistory(NumInt(cs.runningDrivers), runningDrivers)
nextReservedMemory(cs) ==
    addExponentiallyWeightedToHistory(NumInt(cs.reservedMemory), reservedMemory)

Last(s) == s[Len(s)]

\* history: the samples this success callback appends
appendedAfter(cs, scope) ==
    [n \in SeriesNames |->
        CASE n = "runningQueries" -> Append(appended[n], Last(nextRunningQueries(cs)))
          [] n = "queuedQueries" -> Append(appended[n], Last(nextQueuedQueries(cs)))
          [] n = "blockedQueries" -> Append(appended[n], Last(nextBlockedQueries(cs)))
          [] n = "activeWorkers" -> Append(appended[n], Last(nextActiveWorkers(cs)))
          [] n = "runningDrivers" -> Append(appended[n], Last(nextRunningDrivers(cs)))
          [] n = "reservedMemory" -> Append(appended[n], Last(nextReservedMemory(cs)))
          [] n = "rowInputRate" ->
                IF hasBaseline(scope)
                THEN Append(appended[n], Last(newRowInputRate(cs, scope))) ELSE appended[n]
          [] n = "byteInputRate" ->
                IF hasBaseline(scope)
                THEN Append(appended[n], Last(newByteInputRate(cs, scope))) ELSE appended[n]
          [] n = "perWorkerCpuTimeRate" ->
                IF hasBaseline(scope)
                THEN Append(appended[n], Last(newPerWorkerCpuTimeRate(cs, scope)))
                ELSE appended[n]]

\* ----------------------------------------------------------------- actions
\* first render committed: the mount effect calls refreshLoop, then the
\* update effect runs for the first time
Mount ==
    /\ mounted = "init"
    /\ mounted' = "mounted"
    /\ sched' = refreshLoopTimers(sched)
    /\ inFlight' = inFlight + 1
    /\ nIssued' = nIssued + 1
    /\ updateEffect
    /\ UNCHANGED <<series, pollState, statText, now, nFailed, okLog, appended>>

\* the timer callback of resetTimer: refreshLoop()
TimerFire ==
    /\ \E t \in sched.timers :
          /\ now >= t.due
          /\ sched' = refreshLoopTimers([sched EXCEPT !.timers = sched.timers \ {t}])
    /\ inFlight' = inFlight + 1
    /\ nIssued' = nIssued + 1
    /\ UNCHANGED <<series, pollState, lastRender, mounted, effectPending, charts, statText,
                   now, nFailed, okLog, redraws, nSkipped, appended>>

\* variant: the state setters take effect after the unmount too
stateLiveAlways == TRUE

\* the state setters of the component take effect (React drops the updates
\* of a component that was unmounted)
stateLive == mounted = "mounted"

\* the success callback of $.get with the response cs
FetchSuccess(cs) ==
    /\ inFlight > 0
    /\ mounted = "mounted" => ~effectPending
    /\ inFlight' = inFlight - 1
    /\ IF stateLive
       THEN /\ runningQueries' = nextRunningQueries(cs)
            /\ queuedQueries' = nextQueuedQueries(cs)
            /\ blockedQueries' = nextBlockedQueries(cs)
            /\ activeWorkers' = nextActiveWorkers(cs)
            /\ runningDrivers' = nextRunningDrivers(cs)
            /\ reservedMemory' = nextReservedMemory(cs)
            /\ rowInputRate' = newRowInputRate(cs, refreshLoopScope)
            /\ byteInputRate' = newByteInputRate(cs, refreshLoopScope)
            /\ perWorkerCpuTimeRate' = newPerWorkerCpuTimeRate(cs, refreshLoopScope)
            /\ lastInputRows' = cs.totalInputRows
            /\ lastInputBytes' = cs.totalInputBytes
            /\ lastCpuTime' = cs.totalCpuTimeSecs
            /\ lastRefresh' = now
            /\ effectPending' = TRUE
            /\ okLog' = Append(okLog, [s |-> cs, t |-> now])
            /\ appended' = appendedAfter(cs, refreshLoopScope)
            /\ statText' = statTextOf(AllSeries')
       ELSE UNCHANGED <<series, pollState, effectPending, statText, okLog, appended>>
    /\ sched' = resetTimer(sched)
    /\ UNCHANGED <<lastRender, mounted, charts, now, nIssued, nFailed, redraws, nSkipped>>

\* variant: a failed fetch records the time of the poll
FetchFailRecordsRefresh ==
    /\ inFlight > 0
    /\ inFlight' = inFlight - 1
    /\ nFailed' = nFailed + 1
    /\ sched' = resetTimer(sched)
    /\ lastRefresh' = now
    /\ UNCHANGED <<series, lastInputRows, lastInputBytes, lastCpuTime, lastRender, mounted,
                   effectPending, charts, statText, now, nIssued, okLog, redraws, nSkipped,
                   appended>>

\* variant: a failed fetch records the time of the poll too
FetchFailStampsRefresh ==
    /\ inFlight > 0
    /\ inFlight' = inFlight - 1
    /\ nFailed' = nFailed + 1
    /\ sched' = resetTimer(sched)
    /\ lastRefresh' = now
    /\ UNCHANGED <<series, lastInputRows, lastInputBytes, lastCpuTime, lastRender, mounted,
                   effectPending, charts, statText, now, nIssued, okLog, redraws, nSkipped,
                   appended>>

\* the .fail callback of $.get
FetchFail ==
    /\ inFlight > 0
    /\ inFlight' = inFlight - 1
    /\ nFailed' = nFailed + 1
    /\ sched' = resetTimer(sched)
    /\ UNCHANGED <<series, pollState, lastRender, mounted, effectPending, charts, statText,
                   now, nIssued, okLog, redraws, nSkipped, appended>>

\* the update effect after a commit
UpdateEffect ==
    /\ mounted = "mounted"
    /\ effectPending
    /\ updateEffect
    /\ UNCHANGED <<series, pollState, sched, inFlight, mounted, statText, now,
                   nIssued, nFailed, okLog, appended>>

\* the cleanup of the mount effect
Unmount ==
    /\ mounted = "mounted"
    /\ mounted' = "unmounted"
    /\ sched' = clearTimeout(sched)
    /\ effectPending' = FALSE
    /\ UNCHANGED <<series, pollState, lastRender, inFlight, charts, statText, now, history>>

\* Date.now() advances
Tick ==
    /\ \E d \in TickSteps :
          /\ now + d <= MaxTime
          /\ now' = now + d
    /\ UNCHANGED <<series, pollState, lastRender, sched, inFlight, mounted,
                   effectPending, charts, statText, history>>

\* Date.now() is set back (a clock adjustment) while a fetch is in flight, to
\* the time of the recorded refresh or before it
ClockBack ==
    /\ mounted = "mounted"
    /\ inFlight > 0
    /\ ~effectPending
    /\ lastRefresh # Null
    /\ nIssued <= MaxBackIssued
    /\ \E b \in BackSteps :
          /\ lastRefresh - b >= MinBackTime
          /\ lastRefresh - b < now
          /\ now' = lastRefresh - b
    /\ UNCHANGED <<series, pollState, lastRender, sched, inFlight, mounted,
                   effectPending, charts, statText, history>>

Next ==
    \/ Mount
    \/ TimerFire
    \/ \E cs \in Snapshots : FetchSuccess(cs)
    \/ FetchFail
    \/ UpdateEffect
    \/ Unmount
    \/ Tick
    \/ ClockBack

Spec == Init /\ [][Next]_vars

\* the event loop runs a due timer, and time passes
FairSpec == Spec /\ WF_vars(Tick) /\ WF_vars(TimerFire)

TypeOK ==
    /\ inFlight \in Nat
    /\ mounted \in {"init", "mounted", "unmounted"}
    /\ now \in 0..MaxTime

\* ------------------------------------------------------------------ claims
RateNames == {"rowInputRate", "byteInputRate", "perWorkerCpuTimeRate"}
PointNames == SeriesNames \ RateNames

\* C1: once the cleanup of the mount effect has run, no fetch is issued.
C1_NoFetchAfterTeardown ==
    [][mounted = "unmounted" => nIssued' = nIssued]_vars

\* C2: at most one fetch is outstanding in every reachable state.
C2_AtMostOneFetchOutstanding == inFlight <= 1

\* the first fetch is delayed for two poll delays and no second one was issued
C2_Witness == nIssued = 1 /\ inFlight = 1 /\ now >= 2 * PollDelay

\* C3: the failure callback leaves the nine series and the poll state as
\* they were; its only effect is the timer of the next fetch.
C3_FailedFetchMutatesNothing ==
    [][nFailed' # nFailed =>
          /\ series' = series
          /\ pollState' = pollState
          /\ <<lastRender, charts, mounted>>' = <<lastRender, charts, mounted>>
          /\ [id |-> sched'.timeoutIdRef, due |-> now + PollDelay] \in sched'.timers]_vars

\* a poll failed after a successful first poll
C3_Witness ==
    /\ Len(okLog) = 1 /\ okLog[1].t < PollDelay
    /\ nFailed = 1 /\ inFlight = 0 /\ mounted = "mounted"
    /\ lastRefresh = okLog[1].t /\ Len(runningQueries) = 1

\* C4: while mounted, every completion (success or failure) leaves exactly
\* one timer pending, due PollDelay after the completion; a fetch after the
\* first is issued only by such a timer when it is due, one at a time; and
\* a pending timer leads to the next fetch (or to the unmount).
C4_PollingNeverStops ==
    /\ [][(inFlight' < inFlight /\ mounted = "mounted") =>
            sched'.timers = {[id |-> sched'.timeoutIdRef, due |-> now + PollDelay]}]_vars
    /\ [][(nIssued' # nIssued /\ mounted # "init") =>
            /\ nIssued' = nIssued + 1
            /\ \E t \in sched.timers : t.due <= now /\ t \notin sched'.timers]_vars
    /\ \A k \in 0..(MaxTime \div PollDelay + 1) :
          (/\ mounted = "mounted" /\ nIssued = k
           /\ \E t \in sched.timers : t.due <= MaxTime)
             ~> (nIssued > k \/ mounted = "unmounted")

\* the third fetch was issued after two failures in a row
C4_Witness == nFailed = 2 /\ nIssued = 3 /\ okLog = <<>> /\ mounted = "mounted"

\* the last successful poll has a predecessor, elapsed time > 0 and workers > 0
HasRateCase ==
    /\ Len(okLog) >= 2
    /\ okLog[Len(okLog)].t > okLog[Len(okLog) - 1].t
    /\ okLog[Len(okLog)].s.activeWorkers > 0

\* C5: a successful poll after the first (elapsed > 0, workers > 0) appends a
\* sample to each rate series; after Poll1 at 0 and Poll2 at 1000 the three
\* rate series hold one sample each: 500, 200000 and 1.
C5_RateSampleAppended ==
    /\ HasRateCase => \A n \in RateNames : Len(AllSeries[n]) >= 1
    /\ okLog = <<[s |-> Poll1, t |-> 0], [s |-> Poll2, t |-> 1000]>> =>
          /\ rowInputRate = <<NumInt(500)>>
          /\ byteInputRate = <<NumInt(200000)>>
          /\ perWorkerCpuTimeRate = <<NumInt(1)>>

\* C6: poll 1 succeeds at 0, poll 2 fails, poll 3 succeeds at 2000: poll 3
\* appends rates computed against poll 1 over 2 seconds.
C6_BaselineIsLastSuccess ==
    (okLog = <<[s |-> Poll1, t |-> 0], [s |-> Poll2, t |-> 2000]>> /\ nFailed = 1) =>
        /\ rowInputRate = <<NumInt(250)>>
        /\ byteInputRate = <<NumInt(100000)>>
        /\ perWorkerCpuTimeRate = <<Fin(1, 2)>>

\* C7: after the first successful poll each point-in-time series has one
\* sample and each rate series is empty, nothing was appended to it.
C7_FirstPollGuard ==
    Len(okLog) = 1 =>
        /\ \A n \in PointNames : Len(AllSeries[n]) = 1
        /\ runningQueries = <<okLog[1].s.runningQueries>>
        /\ \A n \in RateNames : AllSeries[n] = <<>> /\ appended[n] = <<>>

C7_Witness == Len(okLog) = 1 /\ mounted = "mounted" /\ lastRefresh # Null

\* the last Min(k, Len(s)) elements of s
LastK(s, k) == SubSeq(s, Len(s) - Min(k, Len(s)) + 1, Len(s))

\* C8: every series has at most MaxHistory samples and equals the most
\* recent MaxHistory samples appended to it, in order.
C8_BoundedHistory ==
    \A n \in SeriesNames :
        /\ Len(AllSeries[n]) <= MaxHistory
        /\ AllSeries[n] = LastK(appended[n], MaxHistory)

\* a sample was appended to a full series
C8_Witness ==
    /\ Len(appended["runningQueries"]) > MaxHistory
    /\ Len(runningQueries) = MaxHistory
    /\ runningQueries[1] = appended["runningQueries"][2]

\* C9: the update effect redraws exactly when lastRender is unset or at least
\* RenderInterval old; a redraw records its time as lastRender; consecutive
\* redraws are at least RenderInterval apart.
C9_RenderThrottle ==
    /\ [](/\ \A i \in 1..(Len(redraws) - 1) : redraws[i + 1] - redraws[i] >= RenderInterval
          /\ lastRender = (IF redraws = <<>> THEN Null ELSE redraws[Len(redraws)])
          /\ \A t \in {0, now} :
                /\ shouldRender(Null, t)
                /\ ~shouldRender(t, t + 200)
                /\ shouldRender(t, t + 1000))
    /\ [][redraws' # redraws =>
            /\ lastRender = Null \/ now - lastRender >= RenderInterval
            /\ redraws' = Append(redraws, now)
            /\ lastRender' = now
            /\ charts' = AllSeries]_vars
    /\ [][nSkipped' # nSkipped =>
            /\ lastRender # Null /\ now - lastRender < RenderInterval
            /\ <<redraws, lastRender, charts>>' = <<redraws, lastRender, charts>>]_vars

\* two redraws exactly RenderInterval apart, with skipped redraws in between
C9_Witness ==
    /\ Len(redraws) = 2 /\ redraws[2] - redraws[1] = RenderInterval
    /\ nSkipped >= 2 /\ Len(okLog) >= 1

IsNumber(x) == x.k = "fin"

\* C10: a successful poll with activeWorkers = 0 leaves perWorkerCpuTimeRate
\* as it was, with no Infinity or NaN in it, and updates the other series:
\* each point-in-time series gets its sample, and the two other rate series
\* get theirs when there is a previous poll and time has passed.
C10_ZeroWorkerGuard ==
    [][(Len(okLog') = Len(okLog) + 1 /\ okLog'[Len(okLog')].s.activeWorkers = 0) =>
          /\ perWorkerCpuTimeRate' = perWorkerCpuTimeRate
          /\ \A i \in 1..Len(perWorkerCpuTimeRate') : IsNumber(perWorkerCpuTimeRate'[i])
          /\ \A n \in PointNames : Len(appended'[n]) = Len(appended[n]) + 1
          /\ (lastRefresh # Null /\ now > lastRefresh) =>
                /\ Len(appended'["rowInputRate"]) = Len(appended["rowInputRate"]) + 1
                /\ Len(appended'["byteInputRate"]) = Len(appended["byteInputRate"]) + 1]_vars

C12_AtMostOneTimer ==
    /\ Cardinality(sched.timers) <= 1
    /\ \A t \in sched.timers : t.id = sched.timeoutIdRef

\* a timer is pending after two earlier ones
C12_Witness == Cardinality(sched.timers) = 1 /\ sched.nextId >= 4 /\ mounted = "mounted"

Smoothed(v, prev) ==
    IF prev = <<>> THEN NumInt(v)
    ELSE NumAdd(NumMul(Fin(AlphaNum, AlphaDen), NumInt(v)),
                NumMul(Fin(AlphaDen - AlphaNum, AlphaDen), prev[Len(prev)]))

\* C14: a successful poll appends one sample of the fetched snapshot to each
\* point-in-time series, sets the poll state to the fetched counters and the
\* completion time, and arms the timer of the next fetch without issuing
\* one; the poll state is that of the last successful poll.
C14_SuccessfulPoll ==
    /\ [][Len(okLog') = Len(okLog) + 1 =>
            LET cs == okLog'[Len(okLog')].s IN
            /\ \A n \in PointNames : Len(appended'[n]) = Len(appended[n]) + 1
            /\ Last(runningQueries') = cs.runningQueries
            /\ Last(queuedQueries') = cs.queuedQueries
            /\ Last(blockedQueries') = cs.blockedQueries
            /\ Last(activeWorkers') = cs.activeWorkers
            /\ Last(runningDrivers') = Smoothed(cs.runningDrivers, runningDrivers)
            /\ Last(reservedMemory') = Smoothed(cs.reservedMemory, reservedMemory)
            /\ lastInputRows' = cs.totalInputRows
            /\ lastInputBytes' = cs.totalInputBytes
            /\ lastCpuTime' = cs.totalCpuTimeSecs
            /\ lastRefresh' = now
            /\ nIssued' = nIssued
            /\ sched'.timers = {[id |-> sched'.timeoutIdRef, due |-> now + PollDelay]}]_vars
    /\ [](okLog # <<>> =>
            /\ lastInputRows = okLog[Len(okLog)].s.totalInputRows
            /\ lastInputBytes = okLog[Len(okLog)].s.totalInputBytes
            /\ lastCpuTime = okLog[Len(okLog)].s.totalCpuTimeSecs)

\* two successful polls with different snapshots
C14_Witness ==
    /\ Len(okLog) = 2 /\ okLog[1].s # okLog[2].s
    /\ lastInputRows = okLog[2].s.totalInputRows
    /\ Len(activeWorkers) = 2 /\ activeWorkers[2] # activeWorkers[1]

\* C15: in every state the stat-text of each series is the last sample of
\* the series (nothing for an empty series), whether or not the charts were
\* redrawn.
C15_TextNeverThrottled ==
    \A n \in SeriesNames :
        IF AllSeries[n] = <<>> THEN statText[n] = <<>>
        ELSE statText[n] = <<AllSeries[n][Len(AllSeries[n])]>>

\* the redraw was skipped: the charts are older than the series, the text
\* is not
C15_Witness ==
    /\ mounted = "mounted" /\ ~effectPending /\ nSkipped >= 2
    /\ charts["runningQueries"] # runningQueries
    /\ statText["runningQueries"] = <<Last(runningQueries)>>

\* C16: a fetch in flight and a pending timer never exist together; a timer
\* is created only by a completion callback, and a fetch is issued only at
\* mount or by a due timer, leaving no timer pending.
C16_FetchOrTimer ==
    /\ [](~(inFlight > 0 /\ sched.timers # {}))
    /\ [][sched'.nextId # sched.nextId => inFlight' = inFlight - 1]_vars
    /\ [][nIssued' # nIssued =>
            /\ mounted = "init" \/ \E t \in sched.timers : t.due <= now
            /\ sched'.timers = {}]_vars

\* a timer is pending after the second fetch completed
C16_Witness ==
    /\ sched.timers # {} /\ inFlight = 0 /\ nIssued = 2 /\ mounted = "mounted"

\* C17: the six point-in-time series have the same length, the number of
\* successful polls capped at MaxHistory; the three rate series have the
\* same length, not greater than that of the point-in-time series.
C17_SeriesAligned ==
    /\ \A n \in PointNames : Len(AllSeries[n]) = Min(Len(okLog), MaxHistory)
    /\ \A n \in RateNames :
          /\ Len(AllSeries[n]) = Len(rowInputRate)
          /\ Len(AllSeries[n]) <= Len(runningQueries)

\* more successful polls than the series hold
C17_Witness == Len(okLog) > Len(runningQueries) /\ Len(queuedQueries) >= 2

\* C18: the four poll-state variables are all null before the first
\* successful poll and afterwards all set, to the counters and the time of
\* one snapshot, the last successful poll.
C18_PollStateTogether ==
    IF okLog = <<>>
    THEN lastRefresh = Null /\ lastInputRows = Null /\ lastInputBytes = Null
         /\ lastCpuTime = Null
    ELSE /\ lastRefresh = okLog[Len(okLog)].t
         /\ lastInputRows = okLog[Len(okLog)].s.totalInputRows
         /\ lastInputBytes = okLog[Len(okLog)].s.totalInputBytes
         /\ lastCpuTime = okLog[Len(okLog)].s.totalCpuTimeSecs
         /\ lastRefresh # Null /\ lastInputRows # Null /\ lastInputBytes # Null
         /\ lastCpuTime # Null

\* a poll failed and none succeeded: the poll state is still null
C18_Witness == nFailed >= 1 /\ okLog = <<>> /\ lastRefresh = Null /\ inFlight = 0

\* C19: when a successful poll arrives, the charts show the data of the
\* successful polls before it (no poll was skipped by the throttle and left
\* undrawn until a later poll).
C19_NoPollLost ==
    [][(Len(okLog') = Len(okLog) + 1) => charts = AllSeries]_vars
====
